---- MODULE Spec2Model ----
(***************************************************************************)
(* Documentation registry synchronisation (main.py): the JsonSerializer    *)
(* registry store, the ApiCaller generation client and its two commands,   *)
(* "run" (run_all_updates) and "test" (test_update_single).                *)
(*                                                                         *)
(* JSON values are records [k |-> kind, v |-> payload]; a string's payload *)
(* is its sequence of text atoms, an object's payload its sequence of      *)
(* <<key, value>> pairs in document order (a key is a sequence of text     *)
(* atoms too), an array's payload its items.                               *)
(***************************************************************************)
EXTENDS Integers, Sequences, FiniteSets, TLC

VARIABLES
  regFile,     \* the parsed content of <cwd>/_Index.json on disk
  fs,          \* artifact tree: path -> [kind, content, mtime]
  now,         \* wall clock, in ticks
  pc,          \* position of the running process
  mode,        \* sub-command of the current process: "run" or "test"
  target,      \* <<category, name>> arguments of the "test" command
  signatures,  \* JsonSerializer.signatures of the current process
  pos,         \* index of the next record of the batch loop
  raw,         \* text returned by the outstanding generation call
  run,         \* number of processes started so far
  calls,       \* keys a generation call was issued for, in this process
  saves,       \* number of registry-file writes of this process
  written,     \* paths whose artifact this process wrote
  touched,     \* keys whose record this process reconciled or updated
  regFile0,    \* registry file when this process started
  fs0,         \* artifact tree when this process started
  sigs0,       \* signatures as loaded by this process
  exc,         \* the exception that ended this process, "none" otherwise
  prev,        \* how the previous process ended, and what it left
  pace,        \* generation calls and time.sleep calls of this process, in order
  json_path,   \* the --index-file argument handed to JsonSerializer
  elsewhere,   \* the registry file at a path other than <cwd>/_Index.json
  docs,        \* json_updater: the files under --docs-base, path -> text
  result       \* value or error of the operation applied last

vars == <<regFile, fs, now, pc, mode, target, signatures, pos, raw, run,
          calls, saves, written, touched, regFile0, fs0, sigs0, exc, prev,
          pace, json_path, elsewhere, docs, result>>

\* what the commands of main.py never touch
aside == <<json_path, elsewhere, docs, result>>

----------------------------------------------------------------------------
(* Bounds of the model *)

MaxRuns == 2      \* processes started one after the other
MaxNow == 3       \* last clock tick
DayLen == 2       \* clock ticks per calendar day

----------------------------------------------------------------------------
(* JSON values *)

JStr(s) == [k |-> "str", v |-> s]
JBool(b) == [k |-> "bool", v |-> <<b>>]
JNull == [k |-> "null", v |-> <<>>]
JNum == [k |-> "num", v |-> <<>>]
JObj(pairs) == [k |-> "obj", v |-> pairs]
JArr(items) == [k |-> "arr", v |-> items]

IsDict(j) == j.k = "obj"

\* `key in d` for a dict d
HasKey(j, key) == \E i \in 1..Len(j.v) : j.v[i][1] = key

\* d.get(key, default); of a repeated key the document's last value stands
Get(j, key, default) ==
  IF HasKey(j, key)
    THEN LET hits == {i \in 1..Len(j.v) : j.v[i][1] = key}
         IN j.v[CHOOSE i \in hits : \A h \in hits : h <= i][2]
    ELSE default

Keys(j) == {j.v[i][1] : i \in 1..Len(j.v)}

----------------------------------------------------------------------------
(* Signature: the dataclass, from_dict and to_dict *)

FieldDefault(f) == IF f = <<"visible">> THEN JBool("false") ELSE JStr(<<>>)

from_dict(category, name, props) ==
  LET p == IF IsDict(props) THEN props ELSE JObj(<<>>) IN
  [category |-> category,
   name |-> name,
   visible |-> Get(p, <<"visible">>, FieldDefault(<<"visible">>)),
   declaration |-> Get(p, <<"declaration">>, FieldDefault(<<"declaration">>)),
   seemore |-> Get(p, <<"seemore">>, FieldDefault(<<"seemore">>)),
   seealso |-> Get(p, <<"seealso">>, FieldDefault(<<"seealso">>)),
   deprecated |-> Get(p, <<"deprecated">>, FieldDefault(<<"deprecated">>)),
   last_updated |-> Get(p, <<"last_updated">>, FieldDefault(<<"last_updated">>)),
   path |-> Get(p, <<"path">>, FieldDefault(<<"path">>))]

\* to_dict without the two pops: asdict(self) as it is
to_dict_KeepsIdentity(sig) ==
  JObj(<< << <<"category">>, JStr(sig.category)>>,
          << <<"name">>, JStr(sig.name)>>,
          << <<"visible">>, sig.visible>>,
          << <<"declaration">>, sig.declaration>>,
          << <<"seemore">>, sig.seemore>>,
          << <<"seealso">>, sig.seealso>>,
          << <<"deprecated">>, sig.deprecated>>,
          << <<"last_updated">>, sig.last_updated>>,
          << <<"path">>, sig.path>> >>)

to_dict(sig) ==
  JObj(<< << <<"visible">>, sig.visible>>,
          << <<"declaration">>, sig.declaration>>,
          << <<"seemore">>, sig.seemore>>,
          << <<"seealso">>, sig.seealso>>,
          << <<"deprecated">>, sig.deprecated>>,
          << <<"last_updated">>, sig.last_updated>>,
          << <<"path">>, sig.path>> >>)

----------------------------------------------------------------------------
(* JsonSerializer: load and save.  The in-memory registry is a sequence of *)
(* [category, entries] in insertion order, entries a sequence of records.  *)

RECURSIVE LoadEntries(_, _)
LoadEntries(category, pairs) ==
  IF pairs = <<>> THEN <<>>
  ELSE LET name == Head(pairs)[1]
           props == Head(pairs)[2]
           rest == LoadEntries(category, Tail(pairs))
       IN IF props.k = "null" \/ ~IsDict(props)
            THEN rest
            ELSE <<from_dict(category, name, props)>> \o rest

RECURSIVE LoadCategories(_)
LoadCategories(pairs) ==
  IF pairs = <<>> THEN <<>>
  ELSE LET category == Head(pairs)[1]
           entries == Head(pairs)[2]
           rest == LoadCategories(Tail(pairs))
       IN IF ~IsDict(entries)
            THEN rest
            ELSE <<[category |-> category,
                    entries |-> LoadEntries(category, entries.v)]>> \o rest

_load_all_signatures(data) == LoadCategories(data.v)

Serialized(sigs) ==
  JObj([ci \in 1..Len(sigs) |->
          <<sigs[ci].category,
            JObj([ei \in 1..Len(sigs[ci].entries) |->
                    <<sigs[ci].entries[ei].name,
                      to_dict(sigs[ci].entries[ei])>>])>>])

----------------------------------------------------------------------------
(* Text.  A text is a sequence of atoms: "\n" is white space, the JSON     *)
(* punctuation and the fence markers are atoms of their own, and every     *)
(* other atom is a run of ordinary characters.                             *)

Q == "\""
WS == {"\n"}
\* The fence marker (three backquotes) is written as three apostrophes.
FenceOpen == "'''json"
\* the opening marker begins with the closing one, so it closes a fence too
FenceClosers == {"'''", "'''json"}

RECURSIVE LStrip(_)
LStrip(s) == IF s # <<>> /\ Head(s) \in WS THEN LStrip(Tail(s)) ELSE s

RECURSIVE RStrip(_)
RStrip(s) ==
  IF s # <<>> /\ s[Len(s)] \in WS THEN RStrip(SubSeq(s, 1, Len(s) - 1)) ELSE s

\* str.strip()
Strip(s) == RStrip(LStrip(s))

\* str.find(a) and str.rfind(a), 1-based, 0 when absent
Find(s, a) ==
  IF \E i \in 1..Len(s) : s[i] = a
    THEN CHOOSE i \in 1..Len(s) : s[i] = a /\ \A j \in 1..(i - 1) : s[j] # a
    ELSE 0

RFind(s, a) ==
  IF \E i \in 1..Len(s) : s[i] = a
    THEN CHOOSE i \in 1..Len(s) : s[i] = a /\ \A j \in (i + 1)..Len(s) : s[j] # a
    ELSE 0

----------------------------------------------------------------------------
(* json.loads on a text *)

ParseFail == [ok |-> FALSE, val |-> JNull, rest |-> <<>>]
ParseOk(val, rest) == [ok |-> TRUE, val |-> val, rest |-> rest]

\* a string literal: from a quote to the next quote; a raw control
\* character inside it is rejected (strict mode)
ParseString(s) ==
  IF s = <<>> \/ Head(s) # Q THEN ParseFail
  ELSE LET close == Find(Tail(s), Q) IN
       IF close = 0 THEN ParseFail
       ELSE LET inner == SubSeq(Tail(s), 1, close - 1) IN
            IF \E i \in 1..Len(inner) : inner[i] \in WS THEN ParseFail
            ELSE ParseOk(JStr(inner), SubSeq(Tail(s), close + 1, Len(s) - 1))

RECURSIVE ParseValue(_)
RECURSIVE ParseElems(_, _)
RECURSIVE ParseMembers(_, _)

ParseValue(s0) ==
  LET s == LStrip(s0) IN
  IF s = <<>> THEN ParseFail
  ELSE CASE Head(s) = Q -> ParseString(s)
         [] Head(s) = "[" ->
              LET t == LStrip(Tail(s)) IN
              IF t # <<>> /\ Head(t) = "]" THEN ParseOk(JArr(<<>>), Tail(t))
              ELSE ParseElems(t, <<>>)
         [] Head(s) = "{" ->
              LET t == LStrip(Tail(s)) IN
              IF t # <<>> /\ Head(t) = "}" THEN ParseOk(JObj(<<>>), Tail(t))
              ELSE ParseMembers(t, <<>>)
         [] Head(s) = "1" -> ParseOk(JNum, Tail(s))
         [] Head(s) = "null" -> ParseOk(JNull, Tail(s))
         [] OTHER -> ParseFail

ParseElems(s, acc) ==
  LET r == ParseValue(s) IN
  IF ~r.ok THEN ParseFail
  ELSE LET t == LStrip(r.rest) IN
       IF t = <<>> THEN ParseFail
       ELSE CASE Head(t) = "," -> ParseElems(Tail(t), Append(acc, r.val))
              [] Head(t) = "]" -> ParseOk(JArr(Append(acc, r.val)), Tail(t))
              [] OTHER -> ParseFail

ParseMembers(s, acc) ==
  LET key == ParseString(LStrip(s)) IN
  IF ~key.ok THEN ParseFail
  ELSE LET c == LStrip(key.rest) IN
       IF c = <<>> \/ Head(c) # ":" THEN ParseFail
       ELSE LET r == ParseValue(Tail(c)) IN
            IF ~r.ok THEN ParseFail
            ELSE LET t == LStrip(r.rest)
                     more == Append(acc, <<key.val.v, r.val>>)
                 IN IF t = <<>> THEN ParseFail
                    ELSE CASE Head(t) = "," -> ParseMembers(Tail(t), more)
                           [] Head(t) = "}" -> ParseOk(JObj(more), Tail(t))
                           [] OTHER -> ParseFail

json_loads(s) ==
  LET r == ParseValue(s) IN
  IF r.ok /\ LStrip(r.rest) = <<>> THEN r ELSE ParseFail

----------------------------------------------------------------------------
(* ApiCaller._extract_parts *)

Raised(e) == [err |-> e, documentation |-> JNull, source_url |-> JNull]
Returned(d, u) == [err |-> "none", documentation |-> d, source_url |-> u]

\* re.search(r"```json\s*(.*?)```", raw_text, DOTALL): the leftmost opening
\* marker that a closing marker follows; group(1) runs from the end of the
\* white space after it to the first closing marker
FenceMatch(raw_text) ==
  LET open == Find(raw_text, FenceOpen) IN
  IF open = 0 THEN [found |-> FALSE, group |-> <<>>]
  ELSE LET after == LStrip(SubSeq(raw_text, open + 1, Len(raw_text)))
           closers == {j \in 1..Len(after) : after[j] \in FenceClosers}
       IN IF closers = {} THEN [found |-> FALSE, group |-> <<>>]
          ELSE LET close == CHOOSE j \in closers : \A h \in closers : j <= h
               IN [found |-> TRUE, group |-> SubSeq(after, 1, close - 1)]

\* `key in x` of Python: "yes", "no", or "TypeError" when x is not iterable
Contains(x, key) ==
  CASE x.k = "obj" -> IF HasKey(x, <<key>>) THEN "yes" ELSE "no"
    [] x.k = "str" -> IF \E i \in 1..Len(x.v) : x.v[i] = key THEN "yes" ELSE "no"
    [] x.k = "arr" ->
         IF \E i \in 1..Len(x.v) : x.v[i] = JStr(<<key>>) THEN "yes" ELSE "no"
    [] OTHER -> "TypeError"

\* lines 169-178, on the parsed value
Validate(parsed) ==
  IF parsed.k # "arr" \/ Len(parsed.v) # 2 THEN Raised("ValueError")
  ELSE LET first == parsed.v[1]
           second == parsed.v[2]
           hasDoc == Contains(first, "documentation")
           hasSrc == Contains(second, "source")
       IN IF hasDoc = "TypeError" THEN Raised("TypeError")
          ELSE IF hasDoc = "no" THEN Raised("ValueError")
          ELSE IF hasSrc = "TypeError" THEN Raised("TypeError")
          ELSE IF hasSrc = "no" THEN Raised("ValueError")
          ELSE IF ~IsDict(first) \/ ~IsDict(second) THEN Raised("TypeError")
          ELSE Returned(Get(first, <<"documentation">>, JNull),
                        Get(second, <<"source">>, JNull))

_extract_parts(raw_text) ==
  LET match == FenceMatch(raw_text)
      content == IF match.found THEN Strip(match.group) ELSE Strip(raw_text)
      start == Find(content, "[")
      end == RFind(content, "]")
  IN IF start = 0 \/ end = 0 \/ end < start THEN Raised("ValueError")
     ELSE LET json_str == SubSeq(content, start, end)
              parsed == json_loads(json_str)
          IN IF ~parsed.ok THEN Raised("ValueError")
             ELSE Validate(parsed.val)

----------------------------------------------------------------------------
(* Responses of the generation service the model draws from *)

Lit(a) == <<Q, a, Q>>

TwoPart(d, u) ==
  <<"[", "{">> \o Lit("documentation") \o <<":">> \o d \o <<"}", ",", "{">>
    \o Lit("source") \o <<":">> \o u \o <<"}", "]">>

Fenced(body) == <<"Here", FenceOpen, "\n">> \o body \o <<"\n", "'''", "Done">>

RespFenced == Fenced(TwoPart(Lit("D1"), Lit("U1")))
RespBare == TwoPart(Lit("D2"), Lit("U2"))
RespOneElement ==
  Fenced(<<"[", "{">> \o Lit("documentation") \o <<":">> \o Lit("D1") \o <<"}", "]">>)
RespMissingKey ==
  Fenced(<<"[", "{">> \o Lit("text") \o <<":">> \o Lit("D1") \o <<"}", ",", "{">>
           \o Lit("source") \o <<":">> \o Lit("U1") \o <<"}", "]">>)
RespNoArray == <<"Sorry", "no", "answer">>
RespNotJson == <<"[", "see", "above", "]">>
RespNumberDoc == Fenced(TwoPart(<<"1">>, Lit("U1")))

AllResponses ==
  {RespFenced, RespBare, RespOneElement, RespMissingKey, RespNoArray,
   RespNotJson, RespNumberDoc}

\* the texts a generation call of a process returns
Responses ==
  {RespFenced, RespBare, RespOneElement, RespNotJson, RespNumberDoc}

----------------------------------------------------------------------------
(* The artifact tree under project_base.  The path <<>> is project_base    *)
(* itself (project_base / "" is project_base); every other artifact lies   *)
(* in a sub-directory of its own, which exists exactly when the artifact   *)
(* does.                                                                   *)

PathA == <<"a/Foo.md">>
PathB == <<"b/Bar.md">>
BasePath == <<>>
PathSet == {BasePath, PathA, PathB}

NoFile == [kind |-> "none", content |-> <<>>, mtime |-> 0]
Dir(t) == [kind |-> "dir", content |-> <<>>, mtime |-> t]
File(c, t) == [kind |-> "file", content |-> c, mtime |-> t]

\* Path.exists()
Exists(tree, p) == tree[p].kind # "none"

\* out_path = self.project_base / sig.path
OutPath(sig) == sig.path.v

\* out_path.parent.mkdir(parents=True, exist_ok=True)
Mkdir(tree, p, t) ==
  IF p = BasePath THEN [err |-> "none", tree |-> tree]
  ELSE IF tree[BasePath].kind = "file" THEN [err |-> "OSError", tree |-> tree]
  ELSE IF Exists(tree, p) THEN [err |-> "none", tree |-> tree]
  ELSE [err |-> "none", tree |-> [tree EXCEPT ![BasePath] = Dir(t)]]

\* out_path.write_text(text)
WriteText(tree, p, text, t) ==
  IF tree[p].kind = "dir" THEN [err |-> "OSError", tree |-> tree]
  ELSE [err |-> "none", tree |-> [tree EXCEPT ![p] = File(text, t)]]

\* the artifact written without the trailing newline
WriteArtifact_NoNewline(tree, p, documentation, t) ==
  LET made == Mkdir(tree, p, t) IN
  IF made.err # "none" THEN made
  ELSE IF documentation.k # "str" THEN [err |-> "TypeError", tree |-> made.tree]
  ELSE WriteText(made.tree, p, documentation.v, t)

\* out_path.parent.mkdir(...); out_path.write_text(documentation + "\n")
WriteArtifact(tree, p, documentation, t) ==
  LET made == Mkdir(tree, p, t) IN
  IF made.err # "none" THEN made
  ELSE IF documentation.k # "str" THEN [err |-> "TypeError", tree |-> made.tree]
  ELSE WriteText(made.tree, p, Append(documentation.v, "\n"), t)

----------------------------------------------------------------------------
(* Dates *)

DayNames == <<"2023-01-01", "2023-01-02", "2023-01-03", "2023-01-04">>

\* datetime.fromtimestamp(t).strftime("%Y-%m-%d")
DateStr(t) == JStr(<<DayNames[(t \div DayLen) + 1]>>)

----------------------------------------------------------------------------
(* The in-memory registry *)

RECURSIVE KeysFrom(_, _)
KeysFrom(sigs, ci) ==
  IF ci > Len(sigs) THEN <<>>
  ELSE [ei \in 1..Len(sigs[ci].entries) |-> <<ci, ei>>] \o KeysFrom(sigs, ci + 1)

\* the order run_all_updates visits the records in
VisitOrder(sigs) == KeysFrom(sigs, 1)

SigAt(sigs, key) == sigs[key[1]].entries[key[2]]

Find_sig(sigs, category, name) ==
  {key \in {VisitOrder(sigs)[i] : i \in 1..Len(VisitOrder(sigs))} :
     /\ sigs[key[1]].category = category
     /\ SigAt(sigs, key).name = name}

\* get_signature: KeyError when the category or the name is absent
get_signature(sigs, category, name) ==
  IF Find_sig(sigs, category, name) = {}
    THEN [err |-> "KeyError", sig |-> JNull]
    ELSE [err |-> "none",
          sig |-> SigAt(sigs, CHOOSE key \in Find_sig(sigs, category, name) : TRUE)]

\* plain assignment without the membership test: an absent key is created
update_signature_in_memory_Inserts(sigs, updated_sig) ==
  LET hits == Find_sig(sigs, updated_sig.category, updated_sig.name)
      cats == {ci \in 1..Len(sigs) : sigs[ci].category = updated_sig.category}
  IN IF hits # {}
       THEN LET key == CHOOSE h \in hits : TRUE IN
            [err |-> "none",
             sigs |-> [sigs EXCEPT ![key[1]].entries[key[2]] = updated_sig]]
     ELSE IF cats # {}
       THEN LET ci == CHOOSE c \in cats : TRUE IN
            [err |-> "none",
             sigs |-> [sigs EXCEPT ![ci].entries = Append(@, updated_sig)]]
     ELSE [err |-> "KeyError", sigs |-> sigs]

update_signature_in_memory(sigs, updated_sig) ==
  LET hits == Find_sig(sigs, updated_sig.category, updated_sig.name) IN
  IF hits = {} THEN [err |-> "KeyError", sigs |-> sigs]
  ELSE LET key == CHOOSE h \in hits : TRUE IN
       [err |-> "none",
        sigs |-> [sigs EXCEPT ![key[1]].entries[key[2]] = updated_sig]]

----------------------------------------------------------------------------
(* Registry files and artifact trees the processes start from *)

Txt(a) == JStr(<<a>>)

EntryFull(p) ==
  JObj(<< << <<"visible">>, JBool("true")>>,
          << <<"declaration">>, Txt("function Bar")>>,
          << <<"seemore">>, Txt("S0")>>,
          << <<"seealso">>, Txt("Foo")>>,
          << <<"deprecated">>, Txt("no")>>,
          << <<"last_updated">>, Txt("2022-12-31")>>,
          << <<"path">>, JStr(p)>> >>)
EntryPathOnly(p) == JObj(<< << <<"path">>, JStr(p)>> >>)
EntryNoPath == JObj(<< << <<"declaration">>, Txt("function Foo")>> >>)
EntryEmptyPath ==
  JObj(<< << <<"seemore">>, Txt("S0")>>, << <<"path">>, JStr(<<>>)>> >>)
EntryExtra(p) ==
  JObj(<< << <<"path">>, JStr(p)>>, << <<"note">>, Txt("x")>> >>)
EntryNonObject == Txt("oops")

Registry(foo, bar, tail) ==
  JObj(<< << <<"fn">>,
             JObj(<< << <<"Foo">>, foo>>, << <<"Bar">>, bar>> >>)>> >> \o tail)

NonObjectCategory == << << <<"misc">>, Txt("n/a")>> >>

\* the entries of fn/Foo and fn/Bar
EntryPairs ==
  {<<EntryPathOnly(PathA), EntryFull(PathB)>>,
   <<EntryPathOnly(PathA), EntryPathOnly(PathA)>>,
   <<EntryNoPath, EntryFull(PathB)>>,
   <<EntryEmptyPath, EntryFull(PathB)>>,
   <<JNull, EntryFull(PathB)>>,
   <<EntryPathOnly(PathA), EntryNonObject>>}

RegFiles == {Registry(e[1], e[2], NonObjectCategory) : e \in EntryPairs}

Trees ==
  {[p \in PathSet |-> NoFile]} \cup
  {[p \in PathSet |->
      IF p = BasePath THEN Dir(0)
      ELSE IF p \in have THEN File(<<"old", "\n">>, 0) ELSE NoFile] :
   have \in {{}, {PathB}, {PathA, PathB}}}

TestTargets == {<< <<"fn">>, <<"Foo">> >>, << <<"misc">>, <<"Foo">> >>}

----------------------------------------------------------------------------
(* Processes *)

Ended == {"done", "aborted", "crashed"}

Init ==
  /\ regFile \in RegFiles
  /\ fs \in Trees
  /\ now = 1
  /\ pc = "boot"
  /\ mode = "none"
  /\ target = <<>>
  /\ signatures = <<>>
  /\ pos = 1
  /\ raw = <<>>
  /\ run = 0
  /\ calls = <<>>
  /\ saves = 0
  /\ written = {}
  /\ touched = {}
  /\ regFile0 = regFile
  /\ fs0 = fs
  /\ sigs0 = <<>>
  /\ exc = "none"
  /\ prev = [status |-> "boot", mode |-> "none", written |-> {}]
  /\ pace = <<>>
  /\ json_path = "<cwd>/_Index.json"
  /\ elsewhere = JNull
  /\ docs = <<>>
  /\ result = JNull

\* main(): JsonSerializer(...) loads the registry, then the sub-command runs
Start(cmd, tgt) ==
  /\ pc \in Ended \cup {"boot"}
  /\ run < MaxRuns
  /\ run' = run + 1
  /\ mode' = cmd
  /\ target' = tgt
  /\ signatures' = _load_all_signatures(regFile)
  /\ sigs0' = signatures'
  /\ regFile0' = regFile
  /\ fs0' = fs
  /\ pos' = 1
  /\ raw' = <<>>
  /\ calls' = <<>>
  /\ saves' = 0
  /\ written' = {}
  /\ touched' = {}
  /\ prev' = [status |-> pc, mode |-> mode, written |-> written]
  /\ pc' = cmd
  /\ UNCHANGED <<regFile, fs, now>>
  /\ exc' = "none"
  /\ pace' = <<>>
  /\ UNCHANGED aside

StartRun == Start("run", <<>>)
StartTest == \E tgt \in TestTargets : Start("test", tgt)

\* the clock advances while a generation call is outstanding and between
\* processes
Tick ==
  /\ pc \in Ended \cup {"boot", "parse", "testparse"}
  /\ now < MaxNow
  /\ now' = now + 1
  /\ UNCHANGED <<regFile, fs, pc, mode, target, signatures, pos, raw, run,
                 calls, saves, written, touched, regFile0, fs0, sigs0, prev, exc>>
  /\ UNCHANGED pace
  /\ UNCHANGED aside

\* a batch process is terminated from outside
Crash ==
  /\ pc \in {"run", "parse"}
  /\ pc' = "crashed"
  /\ UNCHANGED <<regFile, fs, now, mode, target, signatures, pos, raw, run,
                 calls, saves, written, touched, regFile0, fs0, sigs0, prev, exc>>
  /\ UNCHANGED pace
  /\ UNCHANGED aside

----------------------------------------------------------------------------
(* ApiCaller.run_all_updates *)

Order == VisitOrder(signatures)
CurKey == Order[pos]
CurSig == SigAt(signatures, CurKey)

\* the timestamp patched with today's date instead of the file's
BatchReconcile_Today ==
  /\ pc = "run"
  /\ pos <= Len(Order)
  /\ Exists(fs, OutPath(CurSig))
  /\ LET sig == [CurSig EXCEPT !.last_updated = DateStr(now)]
     IN signatures' = update_signature_in_memory(signatures, sig).sigs
  /\ touched' = touched \cup {CurKey}
  /\ pos' = pos + 1
  /\ UNCHANGED <<regFile, fs, now, pc, mode, target, raw, run, calls, saves,
                 written, regFile0, fs0, sigs0, prev, exc>>
  /\ UNCHANGED pace
  /\ UNCHANGED aside

\* the branch without its `continue`: the generation call follows
BatchReconcile_FallsThrough ==
  /\ pc = "run"
  /\ pos <= Len(Order)
  /\ Exists(fs, OutPath(CurSig))
  /\ LET mtime == fs[OutPath(CurSig)].mtime
         sig == [CurSig EXCEPT !.last_updated = DateStr(mtime)]
     IN signatures' = update_signature_in_memory(signatures, sig).sigs
  /\ touched' = touched \cup {CurKey}
  /\ calls' = Append(calls, CurKey)
  /\ raw' \in Responses
  /\ pc' = "parse"
  /\ UNCHANGED <<regFile, fs, now, mode, target, pos, run, saves, written,
                 regFile0, fs0, sigs0, prev, exc>>
  /\ pace' = Append(pace, "call")
  /\ UNCHANGED aside

\* lines 203-209: the artifact exists, patch the timestamp
BatchReconcile ==
  /\ pc = "run"
  /\ pos <= Len(Order)
  /\ Exists(fs, OutPath(CurSig))
  /\ LET mtime == fs[OutPath(CurSig)].mtime
         sig == [CurSig EXCEPT !.last_updated = DateStr(mtime)]
     IN signatures' = update_signature_in_memory(signatures, sig).sigs
  /\ touched' = touched \cup {CurKey}
  /\ pos' = pos + 1
  /\ UNCHANGED <<regFile, fs, now, pc, mode, target, raw, run, calls, saves,
                 written, regFile0, fs0, sigs0, prev, exc>>
  /\ UNCHANGED pace
  /\ UNCHANGED aside

\* the call made without looking for the artifact first
BatchCall_IgnoresExisting ==
  /\ pc = "run"
  /\ pos <= Len(Order)
  /\ calls' = Append(calls, CurKey)
  /\ raw' \in Responses
  /\ pc' = "parse"
  /\ UNCHANGED <<regFile, fs, now, mode, target, signatures, pos, run, saves,
                 written, touched, regFile0, fs0, sigs0, prev, exc>>
  /\ pace' = Append(pace, "call")
  /\ UNCHANGED aside

\* lines 210-212: the call returns a text
BatchCall ==
  /\ pc = "run"
  /\ pos <= Len(Order)
  /\ ~Exists(fs, OutPath(CurSig))
  /\ calls' = Append(calls, CurKey)
  /\ raw' \in Responses
  /\ pc' = "parse"
  /\ UNCHANGED <<regFile, fs, now, mode, target, signatures, pos, run, saves,
                 written, touched, regFile0, fs0, sigs0, prev, exc>>
  /\ pace' = Append(pace, "call")
  /\ UNCHANGED aside

\* line 212: the call raises (transport, authentication, service); no
\* handler encloses it, so the exception leaves run_all_updates
BatchCallRaises ==
  /\ pc = "run"
  /\ pos <= Len(Order)
  /\ ~Exists(fs, OutPath(CurSig))
  /\ calls' = Append(calls, CurKey)
  /\ pc' = "aborted"
  /\ UNCHANGED <<regFile, fs, now, mode, target, signatures, pos, raw, run,
                 saves, written, touched, regFile0, fs0, sigs0, prev>>
  /\ exc' = "GenerationServiceError"
  /\ pace' = Append(pace, "call")
  /\ UNCHANGED aside

\* _extract_parts called outside any handler: its exception ends the run
BatchParseError_Aborts ==
  /\ pc = "parse"
  /\ _extract_parts(raw).err # "none"
  /\ raw' = <<>>
  /\ pc' = "aborted"
  /\ exc' = _extract_parts(raw).err
  /\ UNCHANGED <<regFile, fs, now, mode, target, signatures, pos, run, calls,
                 saves, written, touched, regFile0, fs0, sigs0, prev>>
  /\ UNCHANGED pace
  /\ UNCHANGED aside

\* lines 213-217: _extract_parts raises, the record is skipped
BatchParseError ==
  /\ pc = "parse"
  /\ _extract_parts(raw).err # "none"
  /\ pos' = pos + 1
  /\ raw' = <<>>
  /\ pc' = "run"
  /\ UNCHANGED <<regFile, fs, now, mode, target, signatures, run, calls,
                 saves, written, touched, regFile0, fs0, sigs0, prev, exc>>
  /\ UNCHANGED pace
  /\ UNCHANGED aside

\* lines 219-228: write the artifact, update the record, sleep
BatchWrite ==
  /\ pc = "parse"
  /\ _extract_parts(raw).err = "none"
  /\ LET parts == _extract_parts(raw)
         out_path == OutPath(CurSig)
         wrote == WriteArtifact(fs, out_path, parts.documentation, now)
         sig == [CurSig EXCEPT !.seemore = parts.source_url,
                               !.last_updated = DateStr(now)]
     IN /\ fs' = wrote.tree
        /\ exc' = wrote.err
        /\ IF wrote.err # "none"
             THEN /\ pc' = "aborted"
                  /\ UNCHANGED <<signatures, pos, written, touched, pace>>
             ELSE /\ pc' = "run"
                  /\ signatures' = update_signature_in_memory(signatures, sig).sigs
                  /\ written' = written \cup {out_path}
                  /\ touched' = touched \cup {CurKey}
                  /\ pace' = Append(pace, "sleep")
                  /\ pos' = pos + 1
  /\ raw' = <<>>
  /\ UNCHANGED <<regFile, now, mode, target, run, calls, saves, regFile0,
                 fs0, sigs0, prev>>
  /\ UNCHANGED aside

\* JsonSerializer.save_to_file
save_to_file ==
  /\ regFile' = Serialized(signatures)
  /\ saves' = saves + 1

\* the save indented into the loop: written before the records are done
BatchSave_InsideLoop ==
  /\ pc = "run"
  /\ save_to_file
  /\ pc' = IF pos > Len(Order) THEN "done" ELSE "run"
  /\ pos' = IF pos > Len(Order) THEN pos ELSE pos + 1
  /\ UNCHANGED <<fs, now, mode, target, signatures, raw, run, calls,
                 written, touched, regFile0, fs0, sigs0, prev, exc>>
  /\ UNCHANGED pace
  /\ UNCHANGED aside

\* lines 230-231: every record was visited
BatchSave ==
  /\ pc = "run"
  /\ pos > Len(Order)
  /\ save_to_file
  /\ pc' = "done"
  /\ UNCHANGED <<fs, now, mode, target, signatures, pos, raw, run, calls,
                 written, touched, regFile0, fs0, sigs0, prev, exc>>
  /\ UNCHANGED pace
  /\ UNCHANGED aside

----------------------------------------------------------------------------
(* ApiCaller.test_update_single *)

\* line 181: get_signature raises KeyError
TestLookupFails ==
  /\ pc = "test"
  /\ get_signature(signatures, target[1], target[2]).err # "none"
  /\ pc' = "aborted"
  /\ UNCHANGED <<regFile, fs, now, mode, target, signatures, pos, raw, run,
                 calls, saves, written, touched, regFile0, fs0, sigs0, prev>>
  /\ exc' = "KeyError"
  /\ UNCHANGED pace
  /\ UNCHANGED aside

TargetKey == CHOOSE key \in Find_sig(signatures, target[1], target[2]) : TRUE

\* lines 181-185: the call returns a text
TestCall ==
  /\ pc = "test"
  /\ get_signature(signatures, target[1], target[2]).err = "none"
  /\ calls' = Append(calls, TargetKey)
  /\ raw' \in Responses
  /\ pc' = "testparse"
  /\ UNCHANGED <<regFile, fs, now, mode, target, signatures, pos, run, saves,
                 written, touched, regFile0, fs0, sigs0, prev, exc>>
  /\ pace' = Append(pace, "call")
  /\ UNCHANGED aside

\* line 185: the call raises
TestCallRaises ==
  /\ pc = "test"
  /\ get_signature(signatures, target[1], target[2]).err = "none"
  /\ calls' = Append(calls, TargetKey)
  /\ pc' = "aborted"
  /\ UNCHANGED <<regFile, fs, now, mode, target, signatures, pos, raw, run,
                 saves, written, touched, regFile0, fs0, sigs0, prev>>
  /\ exc' = "GenerationServiceError"
  /\ pace' = Append(pace, "call")
  /\ UNCHANGED aside

\* line 187: _extract_parts raises
TestParseError ==
  /\ pc = "testparse"
  /\ _extract_parts(raw).err # "none"
  /\ raw' = <<>>
  /\ pc' = "aborted"
  /\ UNCHANGED <<regFile, fs, now, mode, target, signatures, pos, run, calls,
                 saves, written, touched, regFile0, fs0, sigs0, prev>>
  /\ exc' = _extract_parts(raw).err
  /\ UNCHANGED pace
  /\ UNCHANGED aside

\* the artifact-exists shortcut of the batch applied to the single entry
TestWrite_KeepsExisting ==
  /\ pc = "testparse"
  /\ _extract_parts(raw).err = "none"
  /\ LET parts == _extract_parts(raw)
         old == SigAt(signatures, TargetKey)
         out_path == OutPath(old)
         wrote == IF Exists(fs, out_path)
                    THEN [err |-> "none", tree |-> fs]
                    ELSE WriteArtifact(fs, out_path, parts.documentation, now)
         sig == [old EXCEPT !.seemore = parts.source_url,
                            !.last_updated = DateStr(now)]
     IN /\ fs' = wrote.tree
        /\ exc' = wrote.err
        /\ IF wrote.err # "none"
             THEN /\ pc' = "aborted"
                  /\ UNCHANGED <<signatures, written, touched>>
             ELSE /\ pc' = "done"
                  /\ signatures' = update_signature_in_memory(signatures, sig).sigs
                  /\ written' = written \cup {out_path}
                  /\ touched' = touched \cup {TargetKey}
  /\ raw' = <<>>
  /\ UNCHANGED <<regFile, now, mode, target, pos, run, calls, saves, regFile0,
                 fs0, sigs0, prev>>
  /\ UNCHANGED pace
  /\ UNCHANGED aside

\* the single entry followed by the batch's save_to_file
TestWrite_Saves ==
  /\ pc = "testparse"
  /\ _extract_parts(raw).err = "none"
  /\ LET parts == _extract_parts(raw)
         old == SigAt(signatures, TargetKey)
         out_path == OutPath(old)
         wrote == WriteArtifact(fs, out_path, parts.documentation, now)
         sig == [old EXCEPT !.seemore = parts.source_url,
                            !.last_updated = DateStr(now)]
     IN /\ fs' = wrote.tree
        /\ exc' = wrote.err
        /\ IF wrote.err # "none"
             THEN /\ pc' = "aborted"
                  /\ UNCHANGED <<signatures, written, touched, regFile, saves>>
             ELSE /\ pc' = "done"
                  /\ signatures' = update_signature_in_memory(signatures, sig).sigs
                  /\ written' = written \cup {out_path}
                  /\ touched' = touched \cup {TargetKey}
                  /\ regFile' = Serialized(signatures')
                  /\ saves' = saves + 1
  /\ raw' = <<>>
  /\ UNCHANGED <<now, mode, target, pos, run, calls, regFile0, fs0, sigs0, prev>>
  /\ UNCHANGED pace
  /\ UNCHANGED aside

\* lines 189-198: write the artifact, update the record
TestWrite ==
  /\ pc = "testparse"
  /\ _extract_parts(raw).err = "none"
  /\ LET parts == _extract_parts(raw)
         old == SigAt(signatures, TargetKey)
         out_path == OutPath(old)
         wrote == WriteArtifact(fs, out_path, parts.documentation, now)
         sig == [old EXCEPT !.seemore = parts.source_url,
                            !.last_updated = DateStr(now)]
     IN /\ fs' = wrote.tree
        /\ exc' = wrote.err
        /\ IF wrote.err # "none"
             THEN /\ pc' = "aborted"
                  /\ UNCHANGED <<signatures, written, touched>>
             ELSE /\ pc' = "done"
                  /\ signatures' = update_signature_in_memory(signatures, sig).sigs
                  /\ written' = written \cup {out_path}
                  /\ touched' = touched \cup {TargetKey}
  /\ raw' = <<>>
  /\ UNCHANGED <<regFile, now, mode, target, pos, run, calls, saves, regFile0,
                 fs0, sigs0, prev>>
  /\ UNCHANGED pace
  /\ UNCHANGED aside

----------------------------------------------------------------------------

Next ==
  \/ StartRun
  \/ StartTest
  \/ Tick
  \/ Crash
  \/ BatchReconcile
  \/ BatchCall
  \/ BatchCallRaises
  \/ BatchParseError
  \/ BatchWrite
  \/ BatchSave
  \/ TestLookupFails
  \/ TestCall
  \/ TestCallRaises
  \/ TestParseError
  \/ TestWrite

Spec == Init /\ [][Next]_vars

----------------------------------------------------------------------------
(* Load then save, nothing in between: JsonSerializer(path).save_to_file() *)

RTEntries ==
  {EntryFull(PathA), EntryFull(PathB), EntryPathOnly(PathA), EntryNoPath,
   EntryExtra(PathB), JNull, EntryNonObject}

RTFiles ==
  {Registry(foo, bar, tail) :
     foo \in RTEntries, bar \in RTEntries, tail \in {<<>>, NonObjectCategory}}

RTInit ==
  /\ regFile \in RTFiles
  /\ fs = [p \in PathSet |-> NoFile]
  /\ now = 1
  /\ pc = "boot"
  /\ mode = "roundtrip"
  /\ target = <<>>
  /\ signatures = <<>>
  /\ pos = 1
  /\ raw = <<>>
  /\ run = 0
  /\ calls = <<>>
  /\ saves = 0
  /\ written = {}
  /\ touched = {}
  /\ regFile0 = regFile
  /\ fs0 = fs
  /\ sigs0 = <<>>
  /\ exc = "none"
  /\ prev = [status |-> "boot", mode |-> "none", written |-> {}]
  /\ pace = <<>>
  /\ json_path = "<cwd>/_Index.json"
  /\ elsewhere = JNull
  /\ docs = <<>>
  /\ result = JNull

RTLoad ==
  /\ pc = "boot"
  /\ signatures' = _load_all_signatures(regFile)
  /\ sigs0' = signatures'
  /\ pc' = "loaded"
  /\ UNCHANGED <<regFile, fs, now, mode, target, pos, raw, run, calls, saves,
                 written, touched, regFile0, fs0, exc, prev>>
  /\ UNCHANGED pace
  /\ UNCHANGED aside

RTSave ==
  /\ pc = "loaded"
  /\ save_to_file
  /\ pc' = "saved"
  /\ UNCHANGED <<fs, now, mode, target, signatures, pos, raw, run, calls,
                 written, touched, regFile0, fs0, sigs0, exc, prev>>
  /\ UNCHANGED pace
  /\ UNCHANGED aside

RTNext == RTLoad \/ RTSave

SpecRT == RTInit /\ [][RTNext]_vars

----------------------------------------------------------------------------
(* The registry store on its own: get_signature and                        *)
(* update_signature_in_memory applied to keys that are and are not in the  *)
(* registry, in any order.                                                 *)

MaxOps == 2       \* store operations applied after the load

StoreCategories == {<<"fn">>, <<"misc">>}
StoreNames == {<<"Foo">>, <<"Bar">>, <<"Baz">>}

\* the record a caller hands to update_signature_in_memory
UpdatedSig(category, name) ==
  [from_dict(category, name, EntryPathOnly(PathA)) EXCEPT
     !.seemore = Txt("U1"), !.last_updated = Txt("2023-01-02")]

StoreInit ==
  /\ regFile \in RTFiles
  /\ fs = [p \in PathSet |-> NoFile]
  /\ now = 1
  /\ pc = "boot"
  /\ mode = "store"
  /\ target = <<>>
  /\ signatures = <<>>
  /\ pos = 1
  /\ raw = <<>>
  /\ run = 0
  /\ calls = <<>>
  /\ saves = 0
  /\ written = {}
  /\ touched = {}
  /\ regFile0 = regFile
  /\ fs0 = fs
  /\ sigs0 = <<>>
  /\ exc = "none"
  /\ prev = [status |-> "boot", mode |-> "none", written |-> {}]
  /\ pace = <<>>
  /\ json_path = "<cwd>/_Index.json"
  /\ elsewhere = JNull
  /\ docs = <<>>
  /\ result = JNull

StoreLoad ==
  /\ pc = "boot"
  /\ signatures' = _load_all_signatures(regFile)
  /\ sigs0' = signatures'
  /\ pc' = "store"
  /\ UNCHANGED <<regFile, fs, now, mode, target, pos, raw, run, calls, saves,
                 written, touched, regFile0, fs0, exc, prev, pace>>
  /\ UNCHANGED aside

StoreGet ==
  /\ pc = "store"
  /\ pos <= MaxOps
  /\ \E category \in StoreCategories, name \in StoreNames :
       LET got == get_signature(signatures, category, name) IN
       /\ target' = <<category, name>>
       /\ result' = [op |-> "get", err |-> got.err, sig |-> got.sig]
  /\ pos' = pos + 1
  /\ UNCHANGED <<regFile, fs, now, pc, mode, signatures, raw, run, calls,
                 saves, written, touched, regFile0, fs0, sigs0, exc, prev,
                 pace, json_path, elsewhere, docs>>

StoreUpdate ==
  /\ pc = "store"
  /\ pos <= MaxOps
  /\ \E category \in StoreCategories, name \in StoreNames :
       LET updated_sig == UpdatedSig(category, name)
           did == update_signature_in_memory(signatures, updated_sig)
       IN /\ target' = <<category, name>>
          /\ signatures' = did.sigs
          /\ result' = [op |-> "update", err |-> did.err, sig |-> updated_sig]
  /\ pos' = pos + 1
  /\ UNCHANGED <<regFile, fs, now, pc, mode, raw, run, calls, saves, written,
                 touched, regFile0, fs0, sigs0, exc, prev, pace, json_path,
                 elsewhere, docs>>

StoreNext == StoreLoad \/ StoreGet \/ StoreUpdate

SpecStore == StoreInit /\ [][StoreNext]_vars

----------------------------------------------------------------------------
(* The registry store and the --index-file argument: JsonSerializer is     *)
(* constructed with a path, loads, takes an update and saves.              *)

CwdIndex == "<cwd>/_Index.json"
OtherIndex == "lib/_Index.json"
RegPaths == {CwdIndex, OtherIndex}

\* no file at the path
NoRegistry == [k |-> "absent", v |-> <<>>]

\* line 61: self.json_path = Path().cwd() / '_Index.json'; the parameter
\* json_path is not read
self_json_path(json_path_arg) == CwdIndex

PathFiles == RegFiles \cup {NoRegistry}

PathInit ==
  /\ regFile \in PathFiles
  /\ elsewhere \in PathFiles
  /\ json_path \in RegPaths
  /\ fs = [p \in PathSet |-> NoFile]
  /\ now = 1
  /\ pc = "boot"
  /\ mode = "path"
  /\ target = <<>>
  /\ signatures = <<>>
  /\ pos = 1
  /\ raw = <<>>
  /\ run = 0
  /\ calls = <<>>
  /\ saves = 0
  /\ written = {}
  /\ touched = {}
  /\ regFile0 = regFile
  /\ fs0 = fs
  /\ sigs0 = <<>>
  /\ exc = "none"
  /\ prev = [status |-> "boot", mode |-> "none", written |-> {}]
  /\ pace = <<>>
  /\ docs = <<>>
  /\ result = JNull

\* JsonSerializer(args.index_file): read_text raises when the file is absent
PathLoad ==
  /\ pc = "boot"
  /\ LET data == IF self_json_path(json_path) = CwdIndex
                   THEN regFile ELSE elsewhere
     IN IF data = NoRegistry
          THEN /\ pc' = "aborted"
               /\ exc' = "FileNotFoundError"
               /\ UNCHANGED <<signatures, sigs0>>
          ELSE /\ pc' = "loaded"
               /\ signatures' = _load_all_signatures(data)
               /\ sigs0' = signatures'
               /\ UNCHANGED exc
  /\ UNCHANGED <<regFile, fs, now, mode, target, pos, raw, run, calls, saves,
                 written, touched, regFile0, fs0, prev, pace>>
  /\ UNCHANGED aside

\* a record of the registry is updated before the save
PathUpdate ==
  /\ pc = "loaded"
  /\ pos = 1
  /\ Len(VisitOrder(signatures)) > 0
  /\ LET old == SigAt(signatures, VisitOrder(signatures)[1])
         sig == [old EXCEPT !.seemore = Txt("U1")]
     IN signatures' = update_signature_in_memory(signatures, sig).sigs
  /\ pos' = 2
  /\ UNCHANGED <<regFile, fs, now, pc, mode, target, raw, run, calls, saves,
                 written, touched, regFile0, fs0, sigs0, exc, prev, pace>>
  /\ UNCHANGED aside

\* save_to_file: self.json_path.write_text(...)
PathSave ==
  /\ pc = "loaded"
  /\ IF self_json_path(json_path) = CwdIndex
       THEN regFile' = Serialized(signatures) /\ UNCHANGED elsewhere
       ELSE elsewhere' = Serialized(signatures) /\ UNCHANGED regFile
  /\ saves' = saves + 1
  /\ pc' = "saved"
  /\ UNCHANGED <<fs, now, mode, target, signatures, pos, raw, run, calls,
                 written, touched, regFile0, fs0, sigs0, exc, prev, pace,
                 json_path, docs, result>>

PathNext == PathLoad \/ PathUpdate \/ PathSave

SpecPath == PathInit /\ [][PathNext]_vars

----------------------------------------------------------------------------
(* save_to_file step by step: Path.write_text opens the registry file for  *)
(* writing, which truncates it, and the document reaches the file when the *)
(* buffer is flushed at close.  The process can be terminated in between.  *)

\* a file that holds only the first n top-level members of a document
Torn(doc, n) == [k |-> "torn", v |-> SubSeq(doc.v, 1, n)]

\* open(self.json_path, "w"): the file is empty
SaveOpen ==
  /\ pc = "loaded"
  /\ regFile' = Torn(Serialized(signatures), 0)
  /\ pc' = "saving"
  /\ UNCHANGED <<fs, now, mode, target, signatures, pos, raw, run, calls,
                 saves, written, touched, regFile0, fs0, sigs0, exc, prev,
                 pace>>
  /\ UNCHANGED aside

\* write and close: the whole document is in the file
SaveFlush ==
  /\ pc = "saving"
  /\ save_to_file
  /\ pc' = "saved"
  /\ UNCHANGED <<fs, now, mode, target, signatures, pos, raw, run, calls,
                 written, touched, regFile0, fs0, sigs0, exc, prev, pace>>
  /\ UNCHANGED aside

\* the process is terminated during the write: some part of the document,
\* but not all of it, is in the file
SaveCrash ==
  /\ pc = "saving"
  /\ \E n \in 0..(Len(Serialized(signatures).v) - 1) :
       regFile' = Torn(Serialized(signatures), n)
  /\ pc' = "crashed"
  /\ UNCHANGED <<fs, now, mode, target, signatures, pos, raw, run, calls,
                 saves, written, touched, regFile0, fs0, sigs0, exc, prev,
                 pace>>
  /\ UNCHANGED aside

SaveNext == RTLoad \/ SaveOpen \/ SaveFlush \/ SaveCrash

SpecSave == RTInit /\ [][SaveNext]_vars

----------------------------------------------------------------------------
(* _extract_parts on its own, applied to response texts of two forms: an   *)
(* array of up to MaxElems elements of every kind, bare or fenced; and a   *)
(* well-formed two-part array in a fence, between leading and trailing     *)
(* prose.  The variable target describes the response, raw is its text.    *)

MaxElems == 3     \* elements of a response array

ElemKinds ==
  {"objDoc", "objSrc", "objOther", "strDoc", "strSrc", "num", "null", "arrDoc"}

ElemText(kind) ==
  CASE kind = "objDoc" -> <<"{">> \o Lit("documentation") \o <<":">> \o Lit("D1") \o <<"}">>
    [] kind = "objSrc" -> <<"{">> \o Lit("source") \o <<":">> \o Lit("U1") \o <<"}">>
    [] kind = "objOther" -> <<"{">> \o Lit("text") \o <<":">> \o Lit("D1") \o <<"}">>
    [] kind = "strDoc" -> Lit("documentation")
    [] kind = "strSrc" -> Lit("source")
    [] kind = "num" -> <<"1">>
    [] kind = "null" -> <<"null">>
    [] kind = "arrDoc" -> <<"[">> \o Lit("documentation") \o <<"]">>

RECURSIVE JoinElems(_)
JoinElems(kinds) ==
  IF kinds = <<>> THEN <<>>
  ELSE IF Len(kinds) = 1 THEN ElemText(kinds[1])
  ELSE ElemText(kinds[1]) \o <<",">> \o JoinElems(Tail(kinds))

ArrayText(kinds) == <<"[">> \o JoinElems(kinds) \o <<"]">>

FencedResponse(lead, body, trail) ==
  lead \o <<FenceOpen, "\n">> \o body \o <<"\n", "'''">> \o trail

\* documentation texts: plain, with brackets, with a fenced code sample
DocTexts ==
  {<<"D1">>, <<"Items", "[", "i", "]">>, <<"Use", "'''", "x := 1", "'''">>}
UrlTexts == {<<"U1">>}
LeadProse == {<<>>, <<"Here">>, <<"see", "[", "1", "]">>, <<"as", FenceOpen, "below">>}
TrailProse == {<<>>, <<"Done">>, <<"]", "end">>}

ElemSeqs == UNION {[1..n -> ElemKinds] : n \in 0..MaxElems}

ResponseShapes ==
  {[form |-> "array", elems |-> e, fenced |-> f] :
     e \in ElemSeqs, f \in BOOLEAN} \cup
  {[form |-> "twopart", d |-> d, u |-> u, lead |-> l, trail |-> t] :
     d \in DocTexts, u \in UrlTexts, l \in LeadProse, t \in TrailProse}

ResponseText(shape) ==
  IF shape.form = "array"
    THEN IF shape.fenced
           THEN FencedResponse(<<"Here">>, ArrayText(shape.elems), <<"Done">>)
           ELSE ArrayText(shape.elems)
    ELSE FencedResponse(shape.lead,
                        TwoPart(<<Q>> \o shape.d \o <<Q>>,
                                <<Q>> \o shape.u \o <<Q>>),
                        shape.trail)

ParseInit ==
  /\ target \in ResponseShapes
  /\ raw = ResponseText(target)
  /\ regFile = JObj(<<>>)
  /\ fs = [p \in PathSet |-> NoFile]
  /\ now = 1
  /\ pc = "extract"
  /\ mode = "parse"
  /\ signatures = <<>>
  /\ pos = 1
  /\ run = 0
  /\ calls = <<>>
  /\ saves = 0
  /\ written = {}
  /\ touched = {}
  /\ regFile0 = regFile
  /\ fs0 = fs
  /\ sigs0 = <<>>
  /\ exc = "none"
  /\ prev = [status |-> "boot", mode |-> "none", written |-> {}]
  /\ pace = <<>>
  /\ json_path = "<cwd>/_Index.json"
  /\ elsewhere = JNull
  /\ docs = <<>>
  /\ result = JNull

\* documentation, source_url = self._extract_parts(raw)
ExtractReturns ==
  /\ pc = "extract"
  /\ _extract_parts(raw).err = "none"
  /\ result' = _extract_parts(raw)
  /\ pc' = "returned"
  /\ UNCHANGED <<regFile, fs, now, mode, target, signatures, pos, raw, run,
                 calls, saves, written, touched, regFile0, fs0, sigs0, exc,
                 prev, pace, json_path, elsewhere, docs>>

\* _extract_parts raises
ExtractRaises ==
  /\ pc = "extract"
  /\ _extract_parts(raw).err # "none"
  /\ result' = _extract_parts(raw)
  /\ exc' = _extract_parts(raw).err
  /\ pc' = "raised"
  /\ UNCHANGED <<regFile, fs, now, mode, target, signatures, pos, raw, run,
                 calls, saves, written, touched, regFile0, fs0, sigs0, prev,
                 pace, json_path, elsewhere, docs>>

ParseNext == ExtractReturns \/ ExtractRaises

SpecParse == ParseInit /\ [][ParseNext]_vars

----------------------------------------------------------------------------
(* json_updater.py: the link-scan utility.  regFile is the file given as   *)
(* --index-file, docs.tree the files under --docs-base, <<directory, file  *)
(* name>> -> file.  A path of the index is a text of components and "/".   *)

NoDoc == [kind |-> "none", text |-> <<>>]
DocFile(text) == [kind |-> "file", text |-> text]

DocPaths ==
  {<<"a", "Foo.md">>, <<"b", "Foo.md">>, <<"a", "Bar.md">>, <<"a", "Foo.txt">>}

\* --docs-base is not a directory
NoDocsBase == [base |-> "none", tree |-> [p \in DocPaths |-> NoDoc]]

UrlAtoms == {"http://u1", "http://u2"}

\* fnmatch(name, "*.md")
IsMarkdownName(name) == name \in {"Foo.md", "Bar.md"}

\* Path(rel_path).name
RECURSIVE Basename(_)
Basename(p) ==
  IF p = <<>> THEN ""
  ELSE IF p[Len(p)] = "/" THEN Basename(SubSeq(p, 1, Len(p) - 1))
  ELSE p[Len(p)]

\* bool(x) of a JSON value
Truthy(j) ==
  CASE j.k = "null" -> FALSE
    [] j.k = "bool" -> j.v = <<"true">>
    [] j.k = "num" -> TRUE
    [] OTHER -> j.v # <<>>

\* lines 41-44 and 67: file_map.get(filename, [])
FileMatches(tree, filename) ==
  {p \in DOMAIN tree :
     tree[p].kind = "file" /\ IsMarkdownName(p[2]) /\ p[2] = filename}

\* md_link_rx matched at position i: the captured URL, <<>> when no match
MdLinkAt(text, i) ==
  IF text[i] # "[" THEN <<>>
  ELSE LET closes == {j \in (i + 1)..Len(text) : text[j] = "]"} IN
       IF closes = {} THEN <<>>
       ELSE LET j == CHOOSE c \in closes : \A h \in closes : c <= h IN
            IF j = i + 1 \/ j + 1 > Len(text) \/ text[j + 1] # "(" THEN <<>>
            ELSE LET rest == LStrip(SubSeq(text, j + 2, Len(text))) IN
                 IF rest = <<>> \/ Head(rest) \notin UrlAtoms THEN <<>>
                 ELSE LET after == LStrip(Tail(rest)) IN
                      IF after # <<>> /\ Head(after) = ")"
                        THEN <<Head(rest)>> ELSE <<>>

\* md_link_rx.search(text): the leftmost match
md_link_search(text) ==
  LET starts == {i \in 1..Len(text) : MdLinkAt(text, i) # <<>>} IN
  IF starts = {} THEN <<>>
  ELSE MdLinkAt(text, CHOOSE i \in starts : \A h \in starts : i <= h)

\* the atoms [^\s<]+ takes from the start of s
RECURSIVE UrlRun(_)
UrlRun(s) ==
  IF s = <<>> \/ Head(s) \in WS \/ Head(s) = "<" THEN <<>>
  ELSE <<Head(s)>> \o UrlRun(Tail(s))

\* raw_url_rx.search(text): from the first URL to the next white space
raw_url_search(text) ==
  LET starts == {i \in 1..Len(text) : text[i] \in UrlAtoms} IN
  IF starts = {} THEN <<>>
  ELSE UrlRun(SubSeq(text, CHOOSE i \in starts : \A h \in starts : i <= h,
                     Len(text)))

\* line 82: m = md_link_rx.search(text) or raw_url_rx.search(text)
ExtractLink(text) ==
  IF md_link_search(text) # <<>> THEN md_link_search(text)
  ELSE raw_url_search(text)

\* props[key] = val: in place when the key exists, at the end otherwise
SetKey(props, key, val) ==
  IF HasKey(props, key)
    THEN JObj([i \in 1..Len(props.v) |->
                 IF props.v[i][1] = key THEN <<key, val>> ELSE props.v[i]])
    ELSE JObj(Append(props.v, <<key, val>>))

\* an ambiguous file name resolved to one of its matches instead of skipped
ScanEntry_TakesAnyMatch(props, tree, today) ==
  IF ~IsDict(props) THEN props
  ELSE LET rel_path == Get(props, <<"path">>, JNull) IN
       IF ~Truthy(rel_path) THEN props
       ELSE LET matches == FileMatches(tree, Basename(rel_path.v)) IN
            IF Cardinality(matches) = 0 THEN props
            ELSE LET text == tree[CHOOSE p \in matches : TRUE].text
                     m == ExtractLink(text)
                     linked == IF m # <<>>
                                 THEN SetKey(props, <<"seemore">>, JStr(m))
                                 ELSE props
                 IN SetKey(linked, <<"last_updated">>, today)

\* lines 55-89: one entry of a category
ScanEntry(props, tree, today) ==
  IF ~IsDict(props) THEN props
  ELSE LET rel_path == Get(props, <<"path">>, JNull) IN
       IF ~Truthy(rel_path) THEN props
       ELSE LET matches == FileMatches(tree, Basename(rel_path.v)) IN
            IF Cardinality(matches) # 1 THEN props
            ELSE LET text == tree[CHOOSE p \in matches : TRUE].text
                     m == ExtractLink(text)
                     linked == IF m # <<>>
                                 THEN SetKey(props, <<"seemore">>, JStr(m))
                                 ELSE props
                 IN SetKey(linked, <<"last_updated">>, today)

\* lines 49-89: every category and entry, in document order
ScanData(data, tree, today) ==
  JObj([ci \in 1..Len(data.v) |->
          LET entries == data.v[ci][2] IN
          <<data.v[ci][1],
            IF ~IsDict(entries) THEN entries
            ELSE JObj([ei \in 1..Len(entries.v) |->
                         <<entries.v[ei][1],
                           ScanEntry(entries.v[ei][2], tree, today)>>])>>])

\* line 66: Path(rel_path) raises TypeError when rel_path is not a text
PathRaises(data) ==
  \E ci \in 1..Len(data.v) :
    /\ IsDict(data.v[ci][2])
    /\ \E ei \in 1..Len(data.v[ci][2].v) :
         LET props == data.v[ci][2].v[ei][2] IN
         /\ IsDict(props)
         /\ Truthy(Get(props, <<"path">>, JNull))
         /\ Get(props, <<"path">>, JNull).k # "str"

\* texts of the documentation files
DocMdLink == <<"See", "\n", "[", "the", "docs", "]", "(", "http://u1", ")">>
DocRawUrl == <<"See", "\n", "http://u2", "\n", "end">>
DocNoUrl == <<"Nothing", "here">>
DocBoth == <<"http://u2", "\n", "[", "docs", "]", "(", "\n", "http://u1", ")">>
DocParenUrl == <<"(", "http://u2", ")", "\n", "[", "]", "(", "http://u1", ")">>

DocTrees ==
  {[base |-> "dir",
    tree |-> [p \in DocPaths |->
                CASE p = <<"a", "Foo.md">> -> fooA
                  [] p = <<"b", "Foo.md">> -> fooB
                  [] p = <<"a", "Bar.md">> -> barA
                  [] p = <<"a", "Foo.txt">> -> fooTxt]] :
     fooA \in {NoDoc, DocFile(DocMdLink), DocFile(DocRawUrl), DocFile(DocNoUrl),
               DocFile(DocBoth), DocFile(DocParenUrl)},
     fooB \in {NoDoc, DocFile(DocRawUrl)},
     barA \in {NoDoc, DocFile(DocNoUrl)},
     fooTxt \in {NoDoc, DocFile(DocMdLink)}}

ScanPath(dir, name) == JStr(<<dir, "/", name>>)
ScanEntryFull(p) ==
  JObj(<< << <<"seemore">>, Txt("S0")>>,
          << <<"last_updated">>, Txt("2022-12-31")>>,
          << <<"path">>, p>> >>)
ScanEntryPathOnly(p) == JObj(<< << <<"path">>, p>> >>)

ScanIndexFiles ==
  {Registry(foo, bar, NonObjectCategory) :
     foo \in {ScanEntryFull(ScanPath("a", "Foo.md")),
              ScanEntryPathOnly(ScanPath("lib", "Foo.md")),
              ScanEntryPathOnly(ScanPath("a", "Foo.txt")),
              ScanEntryPathOnly(JNull), ScanEntryPathOnly(JNum),
              EntryNoPath, EntryEmptyPath, JNull, EntryNonObject},
     bar \in {ScanEntryFull(ScanPath("a", "Bar.md")), JNull}}

ScanInit ==
  /\ regFile \in ScanIndexFiles
  /\ docs \in DocTrees \cup {NoDocsBase}
  /\ now \in 1..MaxNow
  /\ fs = [p \in PathSet |-> NoFile]
  /\ pc = "scan"
  /\ mode = "scan"
  /\ target = <<>>
  /\ signatures = <<>>
  /\ pos = 1
  /\ raw = <<>>
  /\ run = 0
  /\ calls = <<>>
  /\ saves = 0
  /\ written = {}
  /\ touched = {}
  /\ regFile0 = regFile
  /\ fs0 = fs
  /\ sigs0 = <<>>
  /\ exc = "none"
  /\ prev = [status |-> "boot", mode |-> "none", written |-> {}]
  /\ pace = <<>>
  /\ json_path = "<cwd>/_Index.json"
  /\ elsewhere = JNull
  /\ result = JNull

\* lines 33-35: the sanity check fails, sys.exit(1)
ScanExit ==
  /\ pc = "scan"
  /\ docs.base # "dir"
  /\ pc' = "aborted"
  /\ exc' = "SystemExit"
  /\ UNCHANGED <<regFile, fs, now, mode, target, signatures, pos, raw, run,
                 calls, saves, written, touched, regFile0, fs0, sigs0, prev,
                 pace, json_path, elsewhere, docs, result>>

\* line 66 raises: the process ends before line 92, nothing is written
ScanRaises ==
  /\ pc = "scan"
  /\ docs.base = "dir"
  /\ PathRaises(regFile)
  /\ pc' = "aborted"
  /\ exc' = "TypeError"
  /\ UNCHANGED <<regFile, fs, now, mode, target, signatures, pos, raw, run,
                 calls, saves, written, touched, regFile0, fs0, sigs0, prev,
                 pace, json_path, elsewhere, docs, result>>

\* lines 37-92: every entry is scanned, the index is written back
ScanRun ==
  /\ pc = "scan"
  /\ docs.base = "dir"
  /\ ~PathRaises(regFile)
  /\ regFile' = ScanData(regFile, docs.tree, DateStr(now))
  /\ saves' = saves + 1
  /\ pc' = "scanned"
  /\ UNCHANGED <<fs, now, mode, target, signatures, pos, raw, run, calls,
                 written, touched, regFile0, fs0, sigs0, exc, prev, pace,
                 json_path, elsewhere, docs, result>>

ScanNext == ScanExit \/ ScanRaises \/ ScanRun

SpecScan == ScanInit /\ [][ScanNext]_vars

----------------------------------------------------------------------------
(* Vocabulary of the properties *)

AllKeys == {Order[i] : i \in 1..Len(Order)}
PathOf(key) == SigAt(signatures, key).path.v
Called(key) == \E i \in 1..Len(calls) : calls[i] = key
IsThere(tree, p) == tree[p].kind # "none"

\* <<category, name, value>> of every entry of a registry document
EntryTriples(doc) ==
  UNION {{<<doc.v[i][1], doc.v[i][2].v[j][1], doc.v[i][2].v[j][2]>> :
            j \in 1..Len(doc.v[i][2].v)} :
         i \in {h \in 1..Len(doc.v) : doc.v[h][2].k = "obj"}}

\* a document with the order of its keys forgotten
RECURSIVE Norm(_)
Norm(j) ==
  IF j.k = "obj"
    THEN [k |-> "obj", v |-> {<<j.v[i][1], Norm(j.v[i][2])>> : i \in 1..Len(j.v)}]
    ELSE j

SevenFields ==
  {<<"visible">>, <<"declaration">>, <<"seemore">>, <<"seealso">>,
   <<"deprecated">>, <<"last_updated">>, <<"path">>}

WellFormed(doc) ==
  /\ \A i \in 1..Len(doc.v) : doc.v[i][2].k = "obj"
  /\ \A t \in EntryTriples(doc) : t[3].k = "obj" /\ Keys(t[3]) = SevenFields

BatchProcess == mode = "run"
SecondBatch == mode = "run" /\ prev.mode = "run" /\ prev.status = "done"
AfterCrash == mode = "run" /\ prev.mode = "run" /\ prev.status = "crashed"

\* the (category, name) keys of an in-memory registry
KeyNames(sigs) ==
  UNION {{<<sigs[ci].category, sigs[ci].entries[ei].name>> :
            ei \in 1..Len(sigs[ci].entries)} : ci \in 1..Len(sigs)}

\* the record stored under a (category, name) key that is in the registry
Stored(sigs, cn) ==
  LET places == UNION {{<<ci, ei>> : ei \in 1..Len(sigs[ci].entries)} :
                         ci \in 1..Len(sigs)}
      key == CHOOSE k \in places :
               <<sigs[k[1]].category, sigs[k[1]].entries[k[2]].name>> = cn
  IN sigs[key[1]].entries[key[2]]

\* the source link the service returned along with a documentation text:
\* the responses pair D1 with U1 and D2 with U2
SourceOf(text) == IF text[1] = "D1" THEN <<"U1">> ELSE <<"U2">>

\* the link a documentation text of the model is expected to yield
ExpectedLink(text) ==
  CASE text = <<"See", "\n", "[", "the", "docs", "]", "(", "http://u1", ")">> ->
         <<"http://u1">>
    [] text = <<"See", "\n", "http://u2", "\n", "end">> -> <<"http://u2">>
    [] text = <<"http://u2", "\n", "[", "docs", "]", "(", "\n", "http://u1", ")">> ->
         <<"http://u1">>
    [] text = <<"(", "http://u2", ")", "\n", "[", "]", "(", "http://u1", ")">> ->
         <<"http://u2", ")">>
    [] OTHER -> <<>>

\* the markdown files under the docs tree that carry the path's file name
SameNameDocs(props) ==
  LET path == Get(props, <<"path">>, JNull) IN
  IF path.k # "str" \/ path.v = <<>> THEN {}
  ELSE {p \in DOMAIN docs.tree :
          /\ docs.tree[p].kind = "file"
          /\ p[2] \in {"Foo.md", "Bar.md"}
          /\ p[2] = path.v[Len(path.v)]}

\* an entry the scan has nothing to do for
ScanSkips(props) ==
  \/ props.k # "obj"
  \/ ~HasKey(props, <<"path">>)
  \/ Get(props, <<"path">>, JNull) \in {[k |-> "null", v |-> <<>>], [k |-> "str", v |-> <<>>]}
  \/ Cardinality(SameNameDocs(props)) # 1

(* C1: in batch mode a failure of the generation call for one record is    *)
(* recoverable: it does not abort the batch, the remaining records are     *)
(* still visited and the final save is reached.  Stated as: a batch        *)
(* process is never ended by the exception of a generation call.           *)

C1_ServiceFailureRecoverable ==
  (BatchProcess /\ exc = "GenerationServiceError") => pc # "aborted"

(* C2: the batch pipeline skips every malformed entry (null, non-object,   *)
(* missing or empty path): no generation call for it, no file written for  *)
(* it, and every field of the entry, last_updated included, is left as it  *)
(* was in the registry.                                                    *)

C2_MalformedEntriesSkipped ==
  BatchProcess =>
    /\ \A key \in AllKeys :
         SigAt(sigs0, key).path.v = <<>> =>
           /\ ~Called(key)
           /\ BasePath \notin written
           /\ SigAt(signatures, key) = SigAt(sigs0, key)
    /\ pc = "done" =>
         \A t \in EntryTriples(regFile0) :
           t[3].k # "obj" => t \in EntryTriples(regFile)

(* C3, as claimed: the second of two batch runs in succession makes no     *)
(* generation call at all.                                                 *)

C3_SecondRunMakesNoCalls == SecondBatch => calls = <<>>

(* C3, amended: in the second of two batch runs in succession, no          *)
(* generation call is made for a record whose artifact file exists when    *)
(* that run starts, the artifact and the record's seemore are untouched,   *)
(* and at the end last_updated is the date of the artifact's modification  *)
(* time.                                                                   *)

C3_SecondRunSkipsExisting ==
  SecondBatch =>
    \A key \in AllKeys :
      fs0[PathOf(key)].kind = "file" =>
        /\ ~Called(key)
        /\ fs[PathOf(key)] = fs0[PathOf(key)]
        /\ SigAt(signatures, key).seemore = SigAt(sigs0, key).seemore
        /\ pc = "done" =>
             SigAt(signatures, key).last_updated.v =
               <<DayNames[(fs0[PathOf(key)].mtime \div DayLen) + 1]>>

C3_Witness ==
  /\ SecondBatch
  /\ pc = "done"
  /\ \E key \in AllKeys :
       /\ PathOf(key) \in prev.written
       /\ fs0[PathOf(key)].kind = "file"
       /\ key \in touched
       /\ fs0[PathOf(key)].mtime \div DayLen # now \div DayLen

(* C4: in a batch run, the visit of a record whose artifact path exists    *)
(* makes no generation call, leaves the artifact tree as it is, leaves     *)
(* seemore as it is and sets last_updated to the date of the artifact's    *)
(* modification time.                                                      *)

C4_ExistingArtifactReconciled ==
  [][(/\ BatchProcess
      /\ pc = "run"
      /\ pos <= Len(Order)
      /\ IsThere(fs, PathOf(CurKey))
      /\ pc' # "crashed")
     => /\ calls' = calls
        /\ fs' = fs
        /\ pos' = pos + 1
        /\ signatures' =
             [signatures EXCEPT ![CurKey[1]].entries[CurKey[2]].last_updated =
                JStr(<<DayNames[(fs[PathOf(CurKey)].mtime \div DayLen) + 1]>>)]]_vars

C4_Witness ==
  /\ BatchProcess
  /\ \E key \in touched :
       /\ fs0[PathOf(key)].kind = "file"
       /\ ~Called(key)
       /\ SigAt(signatures, key).seemore = JStr(<<"S0">>)
       /\ SigAt(signatures, key).last_updated # SigAt(sigs0, key).last_updated
       /\ fs[PathOf(key)].mtime \div DayLen # now \div DayLen

(* C5: the registry file is written at most once per batch run, and only   *)
(* after every record was visited; a batch that is aborted leaves the      *)
(* registry file as it was before the run.                                 *)

C5_RegistryWrittenOnceAtEnd ==
  BatchProcess =>
    /\ saves <= 1
    /\ saves = 1 => (pc = "done" /\ pos > Len(Order))
    /\ saves = 0 => regFile = regFile0

C5_Witness ==
  /\ BatchProcess
  /\ pc = "aborted"
  /\ pos > 1
  /\ signatures # sigs0
  /\ regFile = regFile0

(* C6: in batch mode, when the response for a record fails parsing or      *)
(* validation, the record is skipped: no artifact is written, the record   *)
(* (seemore, last_updated) is left as it is, and the loop goes on with the *)
(* next record.                                                            *)

C6_ParseFailureSkipsRecord ==
  [][(/\ BatchProcess
      /\ pc = "parse"
      /\ _extract_parts(raw).err # "none"
      /\ pc' \notin {"parse", "crashed"})
     => /\ fs' = fs
        /\ signatures' = signatures
        /\ pos' = pos + 1
        /\ pc' = "run"]_vars

C6_Witness ==
  /\ BatchProcess
  /\ pc = "run"
  /\ 1 < pos /\ pos <= Len(Order)
  /\ calls # <<>>
  /\ calls[Len(calls)] = Order[pos - 1]
  /\ Order[pos - 1] \notin touched
  /\ ~IsThere(fs, PathOf(Order[pos - 1]))

(* C7, as claimed: for every registry file, load then save yields a        *)
(* document with the same category keys, the same record names and the     *)
(* same field keys and values as the input.                                *)

C7_RoundTripEveryFile == pc = "saved" => Norm(regFile) = Norm(regFile0)

(* C7, amended: load then save keeps the categories that are objects and,  *)
(* in them, the entries that are objects; every saved record has exactly   *)
(* the seven known fields, each with the input's value when the input has  *)
(* the field and with the default otherwise.  So a registry whose          *)
(* categories and entries are all objects, each entry with exactly the     *)
(* seven fields, comes back with the same keys and values.                 *)

C7_RoundTripWellFormed ==
  pc = "saved" =>
    /\ Keys(regFile) = {c \in Keys(regFile0) : Get(regFile0, c, JNull).k = "obj"}
    /\ \A c \in Keys(regFile) :
         LET in == Get(regFile0, c, JNull)
             out == Get(regFile, c, JNull)
         IN /\ Keys(out) = {n \in Keys(in) : Get(in, n, JNull).k = "obj"}
            /\ \A n \in Keys(out) :
                 /\ Keys(Get(out, n, JNull)) = SevenFields
                 /\ \A f \in SevenFields :
                      Get(Get(out, n, JNull), f, JNull) =
                        IF HasKey(Get(in, n, JNull), f)
                          THEN Get(Get(in, n, JNull), f, JNull)
                          ELSE IF f = <<"visible">>
                                 THEN [k |-> "bool", v |-> <<"false">>]
                                 ELSE [k |-> "str", v |-> <<>>]
    /\ WellFormed(regFile0) => Norm(regFile) = Norm(regFile0)

C7_Witness ==
  /\ pc = "saved"
  /\ WellFormed(regFile0)
  /\ Cardinality(EntryTriples(regFile0)) = 2
  /\ Norm(regFile) = Norm(regFile0)

(* C8: a batch run that follows a batch run terminated before its save     *)
(* and that runs to its end makes no generation call for a record whose    *)
(* artifact the terminated run wrote, does not rewrite that artifact, and  *)
(* sets the record's last_updated from the artifact's modification time.   *)

C8_CrashRecovery ==
  (AfterCrash /\ pc = "done") =>
    \A key \in AllKeys :
      PathOf(key) \in prev.written =>
        /\ ~Called(key)
        /\ fs[PathOf(key)] = fs0[PathOf(key)]
        /\ PathOf(key) \notin written
        /\ SigAt(signatures, key).last_updated.v =
             <<DayNames[(fs[PathOf(key)].mtime \div DayLen) + 1]>>

C8_Witness ==
  /\ AfterCrash
  /\ pc = "done"
  /\ \E key \in AllKeys :
       /\ PathOf(key) \in prev.written
       /\ fs[PathOf(key)].mtime \div DayLen # now \div DayLen
       /\ SigAt(signatures, key).last_updated # SigAt(sigs0, key).last_updated

(* C9: in a batch run, when the artifact of a record is absent and the     *)
(* generation call and the parsing succeed with (documentation, source),   *)
(* the step that handles the response leaves the artifact file holding     *)
(* documentation followed by one newline, the record's seemore equal to    *)
(* source and its last_updated equal to the current date, and changes no   *)
(* other field, no other record and no other artifact.                     *)

C9_GeneratedRecordUpdated ==
  [][(/\ BatchProcess
      /\ pc = "parse"
      /\ ~IsThere(fs, PathOf(CurKey))
      /\ _extract_parts(raw).err = "none"
      /\ _extract_parts(raw).documentation.k = "str"
      /\ pc' = "run")
     => /\ fs'[PathOf(CurKey)].kind = "file"
        /\ fs'[PathOf(CurKey)].content =
             _extract_parts(raw).documentation.v \o <<"\n">>
        /\ \A p \in PathSet \ {PathOf(CurKey), BasePath} : fs'[p] = fs[p]
        /\ signatures' =
             [signatures EXCEPT
                ![CurKey[1]].entries[CurKey[2]] =
                   [@ EXCEPT !.seemore = _extract_parts(raw).source_url,
                             !.last_updated =
                                JStr(<<DayNames[(now \div DayLen) + 1]>>)]]
        /\ regFile' = regFile]_vars

C9_Witness ==
  /\ BatchProcess
  /\ pc = "run"
  /\ \E key \in touched :
       /\ Called(key)
       /\ fs[PathOf(key)].content = <<"D1", "\n">>
       /\ SigAt(signatures, key).seemore = JStr(<<"U1">>)
       /\ SigAt(signatures, key).last_updated = JStr(<<"2023-01-02">>)
       /\ SigAt(signatures, key).declaration = SigAt(sigs0, key).declaration

(* C10: single-entry mode calls the generation client for the named        *)
(* record whether or not its artifact exists and, when nothing raises,     *)
(* overwrites the artifact and updates the record; a lookup, service or    *)
(* parse error ends the command with that error, the records and the       *)
(* artifact as they were.                                                  *)

C10_SingleEntryMode ==
  [][mode = "test" =>
       /\ (pc = "test" /\ pc' # pc) =>
            IF \E key \in AllKeys :
                 /\ signatures[key[1]].category = target[1]
                 /\ SigAt(signatures, key).name = target[2]
              THEN calls' = <<TargetKey>>
              ELSE pc' = "aborted" /\ exc' = "KeyError" /\ calls' = <<>>
       /\ (pc = "testparse" /\ pc' = "done") =>
            /\ fs'[PathOf(TargetKey)].kind = "file"
            /\ fs'[PathOf(TargetKey)].content =
                 _extract_parts(raw).documentation.v \o <<"\n">>
            /\ fs'[PathOf(TargetKey)].mtime = now
            /\ SigAt(signatures', TargetKey).seemore =
                 _extract_parts(raw).source_url
       /\ (pc = "testparse" /\ _extract_parts(raw).err # "none" /\ pc' # pc) =>
            pc' = "aborted" /\ exc' = _extract_parts(raw).err
       /\ (pc # "aborted" /\ pc' = "aborted") =>
            /\ exc' # "none"
            /\ signatures' = sigs0
            /\ IF pc = "test" \/ _extract_parts(raw).err # "none"
                 THEN fs' = fs0
                 ELSE fs'[PathOf(TargetKey)] = fs0[PathOf(TargetKey)]]_vars

C10_Witness ==
  /\ mode = "test"
  /\ pc = "done"
  /\ fs0[PathOf(TargetKey)].kind = "file"
  /\ fs0[PathOf(TargetKey)].content = <<"old", "\n">>
  /\ fs[PathOf(TargetKey)].content = <<"D2", "\n">>
  /\ calls = <<TargetKey>>

(* C11: whenever the pipeline has set a record's last_updated, the value   *)
(* is the date of the record's generation call of this run or the          *)
(* modification date of the record's artifact file, never a date taken     *)
(* from anything else such as a directory.  Stated as: every record the    *)
(* process reconciled or updated has an artifact that is a file, and its   *)
(* last_updated is the date that file was written.                         *)

C11_LastUpdatedProvenance ==
  \A key \in touched :
    /\ fs[PathOf(key)].kind = "file"
    /\ SigAt(signatures, key).last_updated.v =
         <<DayNames[(fs[PathOf(key)].mtime \div DayLen) + 1]>>

(* C12: update on a (category, name) key that is not in the registry       *)
(* fails with KeyError and leaves the registry as it is; get on an absent  *)
(* category or name fails with KeyError; on a key that is present get      *)
(* returns the stored record and update replaces it.  So no get or update  *)
(* ever changes the set of (category, name) keys of the registry.          *)

C12_StoreKeysFixed ==
  [][(pc = "store" /\ pos' = pos + 1) =>
       /\ KeyNames(signatures') = KeyNames(signatures)
       /\ KeyNames(signatures') = KeyNames(sigs0)
       /\ IF target' \in KeyNames(signatures)
            THEN /\ result'.err = "none"
                 /\ result'.op = "get" =>
                      /\ signatures' = signatures
                      /\ result'.sig = Stored(signatures, target')
                 /\ result'.op = "update" =>
                      /\ Stored(signatures', target') = result'.sig
                      /\ \A cn \in KeyNames(signatures) \ {target'} :
                           Stored(signatures', cn) = Stored(signatures, cn)
            ELSE /\ result'.err = "KeyError"
                 /\ signatures' = signatures]_vars

C12_Witness ==
  /\ mode = "store"
  /\ result # JNull
  /\ result.op = "update"
  /\ result.err = "KeyError"
  /\ target \notin KeyNames(signatures)
  /\ signatures # sigs0
  /\ KeyNames(signatures) = KeyNames(sigs0)

(* C13: the registry store loads the registry from, and saves it to, the   *)
(* registry file path supplied by the caller: what is loaded is the        *)
(* content of the file at that path, the save writes the file at that      *)
(* path, and no other file is read as the registry or overwritten.         *)

C13_StoreUsesSuppliedPath ==
  LET supplied == IF json_path = CwdIndex THEN regFile ELSE elsewhere IN
  /\ pc = "loaded" => sigs0 = _load_all_signatures(supplied)
  /\ pc = "aborted" => supplied = NoRegistry
  /\ pc = "saved" =>
       /\ supplied = Serialized(signatures)
       /\ json_path # CwdIndex => regFile = regFile0

(* C14: save is atomic: when the process is terminated at any point of     *)
(* save, the registry file holds the complete previous content or the      *)
(* complete new content, never a partially written document.               *)

C14_SaveAtomic ==
  pc = "crashed" => regFile \in {regFile0, Serialized(signatures)}

(* C15: parsing returns a (documentation, source) pair only if the parsed  *)
(* value is an array of exactly two elements, the first an object with a   *)
(* documentation key and the second an object with a source key; for every *)
(* other array (wrong element count, missing key, an element that is not   *)
(* an object) parsing fails with the malformed-response error, ValueError, *)
(* and returns no pair.                                                    *)

C15_ValidationRejectsDeviation ==
  (pc \in {"returned", "raised"} /\ target.form = "array") =>
    IF /\ Len(target.elems) = 2
       /\ target.elems[1] = "objDoc"
       /\ target.elems[2] = "objSrc"
      THEN /\ pc = "returned"
           /\ result.documentation = [k |-> "str", v |-> <<"D1">>]
           /\ result.source_url = [k |-> "str", v |-> <<"U1">>]
      ELSE /\ pc = "raised"
           /\ exc = "ValueError"

(* C18: for every documentation text D and URL U, a response made of       *)
(* prose, a fenced block holding the array [{"documentation": D},          *)
(* {"source": U}] and trailing prose parses to exactly (D, U).             *)

C18_FencedArrayExtracted ==
  (pc \in {"returned", "raised"} /\ target.form = "twopart") =>
    /\ pc = "returned"
    /\ result.documentation = [k |-> "str", v |-> target.d]
    /\ result.source_url = [k |-> "str", v |-> target.u]

(* C16: after a batch run terminated mid-way and a completed batch re-run, *)
(* the saved registry matches the artifacts: every record whose artifact   *)
(* the terminated run produced by a generation call has, in the saved      *)
(* registry, the seemore link that call returned.                          *)

C16_RegistryMatchesArtifacts ==
  (AfterCrash /\ pc = "done") =>
    /\ regFile = Serialized(signatures)
    /\ \A key \in AllKeys :
         PathOf(key) \in prev.written =>
           SigAt(signatures, key).seemore =
             [k |-> "str", v |-> SourceOf(fs[PathOf(key)].content)]

(* C17: in a batch run the fixed delay is observed between any two         *)
(* consecutive generation calls: no generation call follows an earlier     *)
(* call of the same run without a delay in between, also when the earlier  *)
(* call's response failed parsing.                                         *)

C17_DelayBetweenCalls ==
  BatchProcess =>
    \A i \in 1..(Len(pace) - 1) : ~(pace[i] = "call" /\ pace[i + 1] = "call")

(* C19: single-entry (test) mode never writes the registry file: whether   *)
(* test_update_single ends normally or with an error, the registry file    *)
(* is as it was, and after a normal end the new seemore and last_updated   *)
(* of the record, the link the call returned and the date the artifact was *)
(* written, are in the in-memory registry only.                            *)

C19_TestModeNeverSaves ==
  mode = "test" =>
    /\ saves = 0
    /\ regFile = regFile0
    /\ pc = "done" =>
         /\ SigAt(signatures, TargetKey).seemore =
              [k |-> "str", v |-> SourceOf(fs[PathOf(TargetKey)].content)]
         /\ SigAt(signatures, TargetKey).last_updated =
              [k |-> "str",
               v |-> <<DayNames[(fs[PathOf(TargetKey)].mtime \div DayLen) + 1]>>]

C19_Witness ==
  /\ mode = "test"
  /\ pc = "done"
  /\ regFile = regFile0
  /\ SigAt(signatures, TargetKey).seemore = [k |-> "str", v |-> <<"U1">>]
  /\ SigAt(sigs0, TargetKey).seemore # [k |-> "str", v |-> <<"U1">>]
  /\ \A t \in EntryTriples(regFile) :
       \/ t[3].k # "obj"
       \/ Get(t[3], <<"seemore">>, JNull) # [k |-> "str", v |-> <<"U1">>]

(* C20: the link-scan utility writes back unchanged every category that is *)
(* not an object, every entry that is null or not an object, every record  *)
(* without a path and every record whose path's file name matches no or    *)
(* more than one markdown file under the docs tree; for a record with      *)
(* exactly one match, last_updated is the current date, seemore is the     *)
(* link extracted from that file when one is found and is left as it was   *)
(* otherwise, and no other field changes.                                  *)

C20_LinkScan ==
  pc = "scanned" =>
    /\ Len(regFile.v) = Len(regFile0.v)
    /\ \A ci \in 1..Len(regFile0.v) :
         LET before == regFile0.v[ci][2]
             after == regFile.v[ci][2]
         IN /\ regFile.v[ci][1] = regFile0.v[ci][1]
            /\ before.k # "obj" => after = before
            /\ before.k = "obj" =>
                 /\ after.k = "obj"
                 /\ Len(after.v) = Len(before.v)
                 /\ \A ei \in 1..Len(before.v) :
                      LET old == before.v[ei][2]
                          new == after.v[ei][2]
                      IN /\ after.v[ei][1] = before.v[ei][1]
                         /\ IF ScanSkips(old) THEN new = old
                            ELSE LET file == CHOOSE p \in SameNameDocs(old) : TRUE
                                     link == ExpectedLink(docs.tree[file].text)
                                 IN /\ Get(new, <<"last_updated">>, JNull) =
                                         [k |-> "str",
                                          v |-> <<DayNames[(now \div DayLen) + 1]>>]
                                    /\ IF link # <<>>
                                         THEN Get(new, <<"seemore">>, JNull) =
                                                [k |-> "str", v |-> link]
                                         ELSE /\ HasKey(new, <<"seemore">>) =
                                                   HasKey(old, <<"seemore">>)
                                              /\ Get(new, <<"seemore">>, JNull) =
                                                   Get(old, <<"seemore">>, JNull)
                                    /\ Keys(new) = Keys(old) \cup
                                         {<<"last_updated">>} \cup
                                         (IF link # <<>> THEN {<<"seemore">>} ELSE {})
                                    /\ \A f \in Keys(old) \ {<<"seemore">>, <<"last_updated">>} :
                                         Get(new, f, JNull) = Get(old, f, JNull)

C20_Witness ==
  /\ pc = "scanned"
  /\ LET foo0 == regFile0.v[1][2].v[1][2]
         bar0 == regFile0.v[1][2].v[2][2]
         foo == regFile.v[1][2].v[1][2]
         bar == regFile.v[1][2].v[2][2]
     IN /\ foo0.k = "obj"
        /\ Cardinality(SameNameDocs(foo0)) = 2
        /\ foo = foo0
        /\ bar0.k = "obj"
        /\ Cardinality(SameNameDocs(bar0)) = 1
        /\ bar # bar0
        /\ Get(bar, <<"seemore">>, JNull) = [k |-> "str", v |-> <<"S0">>]
        /\ Get(bar, <<"last_updated">>, JNull) = [k |-> "str", v |-> <<"2023-01-02">>]

====
